---- MODULE Spec2Model ----
(***************************************************************************)
(* chat.sendMessage (src/unnamed/part_002): one tRPC mutation that obtains *)
(* the federated MCP client and its tools, then hands a two-message prompt *)
(* to generateText with stopWhen: stepCountIs(10) and returns the text of  *)
(* the result, or maps any thrown fault to a TRPCError.                    *)
(*                                                                         *)
(* The multi-step loop is the one generateText runs for that call: per     *)
(* step one model call, parsing of the emitted tool calls against the      *)
(* tools passed in, concurrent execution of the valid ones, the response   *)
(* messages appended to the prompt of the next step, and the do/while      *)
(* test on the step count.  A model call that fails with a retryable fault *)
(* is repeated by generateText up to its default of 2 retries, since the   *)
(* call site sets no maxRetries; it sets no abortSignal and no timeout     *)
(* either.                                                                 *)
(***************************************************************************)
EXTENDS Integers, Sequences, FiniteSets, TLC

VARIABLES
    pc,              \* position of the handler
    userText,        \* input.text
    tools,           \* the tool set returned by mcpClient.tools()
    messages,        \* initial prompt messages followed by the response messages
    prompt,          \* messages sent with the generation request in flight / last sent
    steps,           \* step results accumulated by generateText
    genCalls,        \* model calls started by the steps of this invocation
    attempts,        \* tries made so far for the model call in flight
    modelCalls,      \* requests sent to the model in this invocation, retries included
    registryCalls,   \* calls of mcpClient.tools() in this invocation
    remote,          \* tools the MCP servers offer at the moment
    cancelled,       \* the caller of this invocation has gone away
    other,           \* a second invocation of the mutation, running concurrently
    stepText,        \* text of the model response of the step in progress
    stepToolCalls,   \* parsed tool calls of the step in progress
    toolOutputs,     \* call index -> settled output of its execute promise, or Pending
    completionOrder, \* call indexes in the order their promises settled
    invoked,         \* ids of the tool calls whose execute was run
    result,          \* what the mutation returned or threw
    caught,          \* the value the catch block received, if any
    lastReported,    \* result of the previous invocation, as its caller saw it
    varied           \* steps of this invocation in which model or tools left the default

(* the variables of the invocation followed step by step *)
runVars == <<pc, userText, tools, messages, prompt, steps, genCalls, attempts,
             modelCalls, registryCalls, stepText, stepToolCalls, toolOutputs,
             completionOrder, invoked, result, caught, lastReported, varied>>

(* what lies outside that invocation *)
outside == <<remote, cancelled, other>>

vars == <<runVars, outside>>

--------------------------------------------------------------------------
(* Bounds of the exploration *)

MaxVaried == 1       \* steps per invocation that differ from the default step

(* Program constants *)

maxSteps == 10       \* stopWhen: stepCountIs(10)
maxRetries == 2      \* generateText's default, the call passes no maxRetries

SYSTEM_PROMPT == "You are a System Health Assistant"

NoText == ""
None == [kind |-> "none"]
Pending == [type |-> "pending"]

UserTexts == {"how is my node?", "is my server ok?"}
Texts == {NoText, "Node n1 is healthy"}
Registered == {"check_node_health", "list_nodes"}
RemoteRegistries == {Registered, {"list_nodes", "restart_node"}}

--------------------------------------------------------------------------
(* Faults and their mapping in the catch block *)

ErrorFault(m) == [isError |-> TRUE, message |-> m]
NonErrorFault == [isError |-> FALSE, message |-> "thrown value"]

RegistryFaults == {ErrorFault("MCP client unavailable"), NonErrorFault}
ToolsFaults == {ErrorFault("MCP tools listing failed"), NonErrorFault}
RetryableFaults == {ErrorFault("generation backend unreachable")}
GenerationFaults ==
    RetryableFaults \cup {ErrorFault("generation request rejected"), NonErrorFault}

(* the fault generateText rejects with, given the tries made: a retryable  *)
(* fault surfaces only once the retries are used up, wrapped in a          *)
(* RetryError; any other fault surfaces at once, as it is on the first try *)
(* and wrapped in a RetryError on a later one.                             *)
SurfacedFault(fault, tries) ==
    IF fault \in RetryableFaults
    THEN ErrorFault("Failed after retries. Last error: generation backend unreachable")
    ELSE IF tries = 1 THEN fault
    ELSE ErrorFault("Failed after retries with non-retryable error")

(* variant: the fixed message is used whatever was caught *)
ToTRPCErrorFixedMessage(fault) ==
    [kind |-> "throw",
     code |-> "INTERNAL_SERVER_ERROR",
     message |-> "Failed to analyze text"]

ToTRPCError(fault) ==
    [kind |-> "throw",
     code |-> "INTERNAL_SERVER_ERROR",
     message |-> IF fault.isError THEN fault.message ELSE "Failed to analyze text"]

(* variant: an empty text is treated as a failure instead of being returned *)
ReturnOrThrowOnEmpty(text) ==
    IF text = NoText
    THEN ToTRPCError(ErrorFault("no output generated"))
    ELSE [kind |-> "return", output |-> text]

ReturnOutput(text) == [kind |-> "return", output |-> text]

--------------------------------------------------------------------------
(* The prompt handed to generateText and the messages a step adds to it *)

SystemMessage == [role |-> "system", content |-> SYSTEM_PROMPT]
UserMessage(text) == [role |-> "user", content |-> text]

(* variant: the user message placed ahead of the system message *)
InitialMessagesUserFirst(text) == <<UserMessage(text), SystemMessage>>

InitialMessages(text) == <<SystemMessage, UserMessage(text)>>

(* A turn of the model: its text and the names of the tools it calls, in   *)
(* the order it emits them.                                                *)
CallLists ==
    {<<>>,
     <<"check_node_health">>,
     <<"restart_node">>,
     <<"list_nodes", "check_node_health">>,
     <<"check_node_health", "restart_node">>,
     <<"restart_node", "check_node_health">>}
AllTurns == [text : Texts, names : CallLists]
DefaultTurn == [text |-> NoText, names |-> <<"check_node_health">>]
FinalTurns == [text : Texts, names : {<<>>}]

(* parseToolCall: a call whose name is not among the tools is kept, marked *)
(* invalid, instead of being thrown.                                       *)
ParseToolCall(stepNo, i, name, toolSet) ==
    [toolCallId |-> <<stepNo, i>>, toolName |-> name, invalid |-> name \notin toolSet]

(* variant: the names are looked up in what the servers offer now *)
ParseToolCallsAgainstRemote(stepNo, names, toolSet) ==
    [i \in 1..Len(names) |-> ParseToolCall(stepNo, i, names[i], remote)]

ParseToolCalls(stepNo, names, toolSet) ==
    [i \in 1..Len(names) |-> ParseToolCall(stepNo, i, names[i], toolSet)]

ToolResultPart(call, payload) ==
    [type |-> "tool-result", toolCallId |-> call.toolCallId,
     toolName |-> call.toolName, value |-> payload]

ToolErrorPart(call, error) ==
    [type |-> "tool-error", toolCallId |-> call.toolCallId,
     toolName |-> call.toolName, value |-> error]

(* the tools' execute, as the tool dispatch of the design has it: a call   *)
(* that does not answer within its per-call timeout is rejected with a     *)
(* Timeout instead of staying open.                                        *)
TimeoutOutput(call) == ToolErrorPart(call, "Timeout")

(* Outcomes of a tool's execute: its payload, or the fault it threw.       *)
ToolOutcomes == {"ok", "failed"}

SettledOutput(call, outcome) ==
    IF outcome = "ok"
    THEN ToolResultPart(call, "payload")
    ELSE ToolErrorPart(call, "ToolInvocationError")

RECURSIVE InvalidToolOutputs(_)
(* the error outputs inserted for the invalid calls, in call order *)
InvalidToolOutputs(calls) ==
    IF calls = <<>> THEN <<>>
    ELSE LET rest == InvalidToolOutputs(Tail(calls))
         IN IF Head(calls).invalid
            THEN <<ToolErrorPart(Head(calls), "NoSuchToolError")>> \o rest
            ELSE rest

RECURSIVE ExecutedOutputs(_, _, _)
(* executeTools: Promise.all over the valid calls keeps their call order,  *)
(* whatever order the promises settled in.                                 *)
ExecutedOutputs(calls, outs, i) ==
    IF i > Len(calls) THEN <<>>
    ELSE LET rest == ExecutedOutputs(calls, outs, i + 1)
         IN IF calls[i].invalid THEN rest ELSE <<outs[i]>> \o rest

(* clientToolOutputs of a step: the invalid calls' errors are pushed       *)
(* first, the executed calls' outputs after them.                          *)
ClientToolOutputs(calls, outs) ==
    InvalidToolOutputs(calls) \o ExecutedOutputs(calls, outs, 1)

(* variant: the tool outputs of a step are not added to the messages *)
ToResponseMessagesWithoutResults(text, calls, outputs) ==
    IF text # NoText \/ calls # <<>>
    THEN <<[role |-> "assistant", text |-> text, toolCalls |-> calls]>>
    ELSE <<>>

(* variant: the tool message placed ahead of the assistant message *)
ToResponseMessagesToolFirst(text, calls, outputs) ==
    (IF outputs # <<>>
     THEN <<[role |-> "tool", content |-> outputs]>>
     ELSE <<>>)
    \o
    (IF text # NoText \/ calls # <<>>
     THEN <<[role |-> "assistant", text |-> text, toolCalls |-> calls]>>
     ELSE <<>>)

(* toResponseMessages: an assistant message when the step has text or tool *)
(* calls, then one tool message holding the outputs when there are any.    *)
ToResponseMessages(text, calls, outputs) ==
    (IF text # NoText \/ calls # <<>>
     THEN <<[role |-> "assistant", text |-> text, toolCalls |-> calls]>>
     ELSE <<>>)
    \o
    (IF outputs # <<>>
     THEN <<[role |-> "tool", content |-> outputs]>>
     ELSE <<>>)

StepResult(text, calls, outputs) ==
    [text |-> text, toolCalls |-> calls, toolResults |-> outputs]

(* variant: the stop condition met one step late *)
stepCountIsOffByOne(n, stepList) == Len(stepList) = n + 1

(* stepCountIs(n): the stop condition is met once n steps were recorded.   *)
stepCountIs(n, stepList) == Len(stepList) = n

(* variant: the loop goes on after a turn without tool calls *)
LoopContinuesWithoutCalls(calls, outputs, stepList) ==
    /\ Len(outputs) = Len(calls)
    /\ ~stepCountIs(maxSteps, stepList)

(* variant: the loop gives up as soon as a tool output is an error *)
LoopStopsOnToolError(calls, outputs, stepList) ==
    /\ Len(calls) > 0
    /\ Len(outputs) = Len(calls)
    /\ \A j \in 1..Len(outputs) : outputs[j].type # "tool-error"
    /\ ~stepCountIs(maxSteps, stepList)

(* variant: the loop gives up once a tool call has timed out *)
LoopStopsOnTimeout(calls, outputs, stepList) ==
    /\ Len(calls) > 0
    /\ Len(outputs) = Len(calls)
    /\ \A j \in 1..Len(outputs) : outputs[j].value # "Timeout"
    /\ ~stepCountIs(maxSteps, stepList)

(* the do/while test of generateText *)
LoopContinues(calls, outputs, stepList) ==
    /\ Len(calls) > 0
    /\ Len(outputs) = Len(calls)
    /\ ~stepCountIs(maxSteps, stepList)

(* what stepCountIs(maxSteps) leaves of the step budget *)
Budget == maxSteps - Len(steps)

(* result.text: the text of the final step *)
(* variant: the text of the first step is taken *)
FinalTextOfFirstStep(stepList) == stepList[1].text

FinalText(stepList) == stepList[Len(stepList)].text

--------------------------------------------------------------------------
(* The three outcomes of the design, read off the way the invocation ended *)

OutcomeOf(res, stepList) ==
    IF res.kind = "throw" THEN "Failed"
    ELSE IF stepList[Len(stepList)].toolCalls = <<>> THEN "Completed"
    ELSE "BudgetExhausted"

--------------------------------------------------------------------------
(* The second invocation: the same handler on its own locals, followed for *)
(* a request that the model answers at once or after one tool step.        *)
OtherText == "compare n1 and n2"
MaxOtherSteps == 2   \* steps after which its model answers without a tool call

OtherStart ==
    [pc |-> "start", tools |-> {}, messages |-> <<>>, steps |-> <<>>,
     genCalls |-> 0, result |-> None]

--------------------------------------------------------------------------
Init ==
    /\ pc = "start"
    /\ userText \in UserTexts
    /\ tools = {}
    /\ messages = <<>>
    /\ prompt = <<>>
    /\ steps = <<>>
    /\ genCalls = 0
    /\ attempts = 0
    /\ modelCalls = 0
    /\ registryCalls = 0
    /\ stepText = NoText
    /\ stepToolCalls = <<>>
    /\ toolOutputs = <<>>
    /\ completionOrder = <<>>
    /\ invoked = {}
    /\ result = None
    /\ caught = None
    /\ lastReported = None
    /\ varied = 0
    /\ remote = Registered
    /\ cancelled = FALSE
    /\ other = OtherStart

(* catch (error) { throw new TRPCError(...) } *)
Throw(fault) ==
    /\ pc' = "done"
    /\ result' = ToTRPCError(fault)
    /\ caught' = fault

(* const mcpClient = await getFederatedMCPClient() *)
GetFederatedMCPClient ==
    /\ pc = "start"
    /\ \/ /\ pc' = "tools"
          /\ UNCHANGED <<result, caught>>
       \/ \E fault \in RegistryFaults : Throw(fault)
    /\ UNCHANGED <<userText, tools, messages, prompt, steps, genCalls, stepText,
                   stepToolCalls, toolOutputs, completionOrder, invoked,
                   lastReported, varied>>
    /\ UNCHANGED <<attempts, modelCalls, registryCalls, outside>>

(* variant: a failed listing is swallowed and the run goes on without tools *)
McpClientToolsIgnoringFailure ==
    /\ pc = "tools"
    /\ registryCalls' = registryCalls + 1
    /\ pc' = "call"
    /\ \/ tools' = remote
       \/ tools' = {}
    /\ UNCHANGED <<userText, messages, prompt, steps, genCalls, stepText,
                   stepToolCalls, toolOutputs, completionOrder, invoked, result, caught,
                   lastReported, varied>>
    /\ UNCHANGED <<attempts, modelCalls, outside>>

(* const tools = await mcpClient.tools() *)
McpClientTools ==
    /\ pc = "tools"
    /\ registryCalls' = registryCalls + 1
    /\ \/ /\ pc' = "call"
          /\ tools' = remote
          /\ UNCHANGED <<result, caught>>
       \/ /\ \E fault \in ToolsFaults : Throw(fault)
          /\ UNCHANGED tools
    /\ UNCHANGED <<userText, messages, prompt, steps, genCalls, stepText,
                   stepToolCalls, toolOutputs, completionOrder, invoked,
                   lastReported, varied>>
    /\ UNCHANGED <<attempts, modelCalls, outside>>

(* generateText({ messages: [system, user], tools, stopWhen }) is entered  *)
CallGenerateText ==
    /\ pc = "call"
    /\ messages' = InitialMessages(userText)
    /\ pc' = "generate"
    /\ UNCHANGED <<userText, tools, prompt, steps, genCalls, stepText,
                   stepToolCalls, toolOutputs, completionOrder, invoked, result, caught,
                   lastReported, varied>>
    /\ UNCHANGED <<attempts, modelCalls, registryCalls, outside>>

(* top of the do/while body: the step's input messages go to the model *)
DoGenerate ==
    /\ pc = "generate"
    /\ prompt' = messages
    /\ genCalls' = genCalls + 1
    /\ attempts' = 1
    /\ modelCalls' = modelCalls + 1
    /\ pc' = "awaitModel"
    /\ UNCHANGED <<userText, tools, messages, steps, stepText, stepToolCalls,
                   toolOutputs, completionOrder, invoked, result, caught, lastReported,
                   varied>>
    /\ UNCHANGED <<registryCalls, outside>>

(* the model call failed with a retryable fault and tries remain: the same *)
(* step input is sent again                                                *)
GenerationRetries ==
    /\ pc = "awaitModel"
    /\ attempts <= maxRetries
    /\ attempts > 1 \/ varied < MaxVaried
    /\ varied' = IF attempts = 1 THEN varied + 1 ELSE varied
    /\ attempts' = attempts + 1
    /\ modelCalls' = modelCalls + 1
    /\ UNCHANGED <<pc, userText, tools, messages, prompt, steps, genCalls,
                   registryCalls, stepText, stepToolCalls, toolOutputs,
                   completionOrder, invoked, result, caught, lastReported>>
    /\ UNCHANGED outside

(* the model call failed: generateText rejects, the catch block maps it *)
GenerationFails ==
    /\ pc = "awaitModel"
    /\ \E fault \in GenerationFaults :
          /\ fault \in RetryableFaults => attempts = maxRetries + 1
          /\ Throw(SurfacedFault(fault, attempts))
    /\ UNCHANGED <<userText, tools, messages, prompt, steps, genCalls, stepText,
                   stepToolCalls, toolOutputs, completionOrder, invoked,
                   lastReported, varied>>
    /\ UNCHANGED <<attempts, modelCalls, registryCalls, outside>>

(* rest of the do/while body once every output of the step is there: the   *)
(* response messages and the step result are recorded, then either the     *)
(* next iteration starts or generateText resolves and the text of its      *)
(* final step is returned as { output: text }.                             *)
CompleteStep(text, calls, outs) ==
    LET outputs == ClientToolOutputs(calls, outs)
        newSteps == Append(steps, StepResult(text, calls, outputs))
    IN /\ messages' = messages \o ToResponseMessages(text, calls, outputs)
       /\ steps' = newSteps
       /\ stepText' = NoText
       /\ stepToolCalls' = <<>>
       /\ toolOutputs' = <<>>
       /\ completionOrder' = <<>>
       /\ IF LoopContinues(calls, outputs, newSteps)
          THEN /\ pc' = "generate"
               /\ UNCHANGED <<result, caught>>
          ELSE /\ pc' = "done"
               /\ result' = ReturnOutput(FinalText(newSteps))
               /\ UNCHANGED caught

(* variant: every parsed call is run, the invalid ones included *)
AllIndexes(calls) == 1..Len(calls)

ValidIndexes(calls) == {i \in 1..Len(calls) : ~calls[i].invalid}

(* variant: the step goes on as soon as one execute has settled *)
AnySettled(calls, outs) == \E j \in ValidIndexes(calls) : outs[j] # Pending

(* await Promise.all(...): resolved once every started execute has settled *)
AllSettled(calls, outs) == \A j \in ValidIndexes(calls) : outs[j] # Pending

(* turns the model may emit in the current step *)
TurnsNow == IF varied < MaxVaried THEN AllTurns ELSE {DefaultTurn} \cup FinalTurns

(* the model call returned: its tool calls are parsed, the valid ones are  *)
(* all started at once (Promise.all over their execute), the invalid ones  *)
(* are not run.  With nothing to wait for the step completes at once.      *)
ModelResponds ==
    /\ pc = "awaitModel"
    /\ \E turn \in TurnsNow :
        LET calls == ParseToolCalls(Len(steps) + 1, turn.names, tools)
            valid == ValidIndexes(calls)
        IN /\ varied' = IF turn \in {DefaultTurn} \cup FinalTurns
                        THEN varied ELSE varied + 1
           /\ invoked' = invoked \cup {calls[i].toolCallId : i \in valid}
           /\ IF valid = {}
              THEN CompleteStep(turn.text, calls, [i \in 1..Len(calls) |-> Pending])
              ELSE /\ pc' = "execute"
                   /\ stepText' = turn.text
                   /\ stepToolCalls' = calls
                   /\ toolOutputs' = [i \in 1..Len(calls) |-> Pending]
                   /\ completionOrder' = <<>>
                   /\ UNCHANGED <<messages, steps, result, caught>>
    /\ UNCHANGED <<userText, tools, prompt, genCalls, lastReported>>
    /\ UNCHANGED <<attempts, modelCalls, registryCalls, outside>>

StepIsVaried ==
    \/ [text |-> stepText, names |-> [i \in 1..Len(stepToolCalls) |-> stepToolCalls[i].toolName]]
          # DefaultTurn
    \/ \E i \in 1..Len(toolOutputs) : toolOutputs[i].type = "tool-error"

(* the execute promise of call i settles with the given output; when it   *)
(* is the last one the step completes.                                     *)
Settles(i, output) ==
    /\ pc = "execute"
    /\ toolOutputs[i] = Pending
    /\ output.type = "tool-error" => (StepIsVaried \/ varied < MaxVaried)
    /\ varied' = IF output.type = "tool-error" /\ ~StepIsVaried
                 THEN varied + 1 ELSE varied
    /\ LET outs == [toolOutputs EXCEPT ![i] = output]
       IN IF AllSettled(stepToolCalls, outs)
          THEN CompleteStep(stepText, stepToolCalls, outs)
          ELSE /\ toolOutputs' = outs
               /\ completionOrder' = Append(completionOrder, i)
               /\ UNCHANGED <<pc, messages, steps, stepText, stepToolCalls, result, caught>>
    /\ UNCHANGED <<userText, tools, prompt, genCalls, invoked, lastReported>>
    /\ UNCHANGED <<attempts, modelCalls, registryCalls, outside>>

(* one execute promise settles, with a payload or with a thrown fault that *)
(* executeTools catches                                                    *)
ToolSettles ==
    \E i \in ValidIndexes(stepToolCalls) :
        \E outcome \in ToolOutcomes :
            Settles(i, SettledOutput(stepToolCalls[i], outcome))

(* one execute promise is rejected by its per-call timeout, which          *)
(* executeTools catches like any other fault                               *)
ToolTimesOut ==
    \E i \in ValidIndexes(stepToolCalls) :
        Settles(i, TimeoutOutput(stepToolCalls[i]))

(* the next request reaches the mutation: nothing of this one is kept *)
NewRequest ==
    /\ pc = "done"
    /\ lastReported' = [outcome |-> OutcomeOf(result, steps), result |-> result]
    /\ pc' = "start"
    /\ userText' \in UserTexts
    /\ tools' = {}
    /\ messages' = <<>>
    /\ prompt' = <<>>
    /\ steps' = <<>>
    /\ genCalls' = 0
    /\ attempts' = 0
    /\ modelCalls' = 0
    /\ registryCalls' = 0
    /\ cancelled' = FALSE
    /\ UNCHANGED <<remote, other>>
    /\ stepText' = NoText
    /\ stepToolCalls' = <<>>
    /\ toolOutputs' = <<>>
    /\ completionOrder' = <<>>
    /\ invoked' = {}
    /\ result' = None
    /\ caught' = None
    /\ varied' = 0

Next ==
    \/ GetFederatedMCPClient
    \/ McpClientTools
    \/ CallGenerateText
    \/ DoGenerate
    \/ GenerationRetries
    \/ GenerationFails
    \/ ModelResponds
    \/ ToolSettles

Spec == Init /\ [][Next]_vars

(* the tools' execute with its per-call timeout *)
NextTimeouts ==
    \/ Next
    \/ ToolTimesOut

SpecTimeouts == Init /\ [][NextTimeouts]_vars

(* every model call and every tool invocation in flight eventually         *)
(* returns, fails or times out, and the handler goes on when it can        *)
SpecLive == Spec /\ WF_vars(Next)

(* the mutation serving one request after another *)
NextRequests ==
    \/ Next
    \/ NewRequest

SpecRequests == Init /\ [][NextRequests]_vars

(* the MCP servers drop a tool and gain another while the request is      *)
(* served                                                                  *)
RegistryChanges ==
    /\ pc # "done"
    /\ remote = Registered
    /\ remote' \in RemoteRegistries \ {remote}
    /\ UNCHANGED <<runVars, cancelled, other>>

NextRegistry ==
    \/ Next
    \/ RegistryChanges

SpecRegistry == Init /\ [][NextRegistry]_vars

(* the caller goes away while the request is served (client disconnect):  *)
(* the handler takes ({ input }) only and hands generateText no            *)
(* abortSignal, so nothing in the run reads this                           *)
Cancel ==
    /\ pc # "done"
    /\ ~cancelled
    /\ cancelled' = TRUE
    /\ UNCHANGED <<runVars, remote, other>>

NextCancel ==
    \/ Next
    \/ Cancel

SpecCancel == Init /\ [][NextCancel]_vars

(* The second invocation runs the same statements on its own locals: *)
OtherThrow(fault) ==
    other' = [other EXCEPT !.pc = "done", !.result = ToTRPCError(fault)]

(* const mcpClient = await getFederatedMCPClient() *)
OtherGetFederatedMCPClient ==
    /\ other.pc = "start"
    /\ \/ other' = [other EXCEPT !.pc = "tools"]
       \/ \E fault \in RegistryFaults : OtherThrow(fault)
    /\ UNCHANGED <<runVars, remote, cancelled>>

(* const tools = await mcpClient.tools() *)
OtherMcpClientTools ==
    /\ other.pc = "tools"
    /\ \/ other' = [other EXCEPT !.pc = "call", !.tools = remote]
       \/ \E fault \in ToolsFaults : OtherThrow(fault)
    /\ UNCHANGED <<runVars, remote, cancelled>>

(* variant: the second invocation goes on from the first one's messages *)
OtherCallGenerateTextSharingContext ==
    /\ other.pc = "call"
    /\ other' = [other EXCEPT !.pc = "generate",
                              !.messages = messages \o <<UserMessage(OtherText)>>]
    /\ UNCHANGED <<runVars, remote, cancelled>>

(* generateText({ messages: [system, user], ... }) *)
OtherCallGenerateText ==
    /\ other.pc = "call"
    /\ other' = [other EXCEPT !.pc = "generate",
                              !.messages = InitialMessages(OtherText)]
    /\ UNCHANGED <<runVars, remote, cancelled>>

OtherDoGenerate ==
    /\ other.pc = "generate"
    /\ other' = [other EXCEPT !.pc = "awaitModel", !.genCalls = @ + 1]
    /\ UNCHANGED <<runVars, remote, cancelled>>

OtherGenerationFails ==
    /\ other.pc = "awaitModel"
    /\ \E fault \in GenerationFaults \ RetryableFaults : OtherThrow(fault)
    /\ UNCHANGED <<runVars, remote, cancelled>>

(* one step of its loop, from the model's turn to the step being recorded, *)
(* with every tool answering                                               *)
OtherStep ==
    /\ other.pc = "awaitModel"
    /\ \E turn \in (IF other.genCalls < MaxOtherSteps THEN {DefaultTurn} ELSE {})
                     \cup {[text |-> "Node n1 is healthy", names |-> <<>>]} :
          LET calls == ParseToolCalls(other.genCalls, turn.names, other.tools)
              outs == [i \in 1..Len(calls) |-> SettledOutput(calls[i], "ok")]
              outputs == ClientToolOutputs(calls, outs)
              newSteps == Append(other.steps, StepResult(turn.text, calls, outputs))
          IN other' =
               [other EXCEPT
                  !.messages = @ \o ToResponseMessages(turn.text, calls, outputs),
                  !.steps = newSteps,
                  !.pc = IF LoopContinues(calls, outputs, newSteps)
                         THEN "generate" ELSE "done",
                  !.result = IF LoopContinues(calls, outputs, newSteps)
                             THEN @ ELSE ReturnOutput(FinalText(newSteps))]
    /\ UNCHANGED <<runVars, remote, cancelled>>

OtherNext ==
    \/ OtherGetFederatedMCPClient
    \/ OtherMcpClientTools
    \/ OtherCallGenerateText
    \/ OtherDoGenerate
    \/ OtherGenerationFails
    \/ OtherStep

(* two requests served at the same time, in any interleaving: one after    *)
(* the other, or overlapping                                               *)
NextConcurrent ==
    \/ Next
    \/ OtherNext
    \/ RegistryChanges

SpecConcurrent == Init /\ [][NextConcurrent]_vars

--------------------------------------------------------------------------
(* Readings of the state used by the properties *)

ToolParts(msgs) ==
    {<<k, j>> \in (1..Len(msgs)) \X (1..2) :
        /\ msgs[k].role = "tool"
        /\ j <= Len(msgs[k].content)
        /\ msgs[k].content[j].type \in {"tool-result", "tool-error"}}

PartsFor(msgs, id) ==
    {p \in ToolParts(msgs) : msgs[p[1]].content[p[2]].toolCallId = id}

AssistantCalls(msgs) ==
    UNION {{msgs[k].toolCalls[i] : i \in 1..Len(msgs[k].toolCalls)} :
             k \in {n \in 1..Len(msgs) : msgs[n].role = "assistant"}}

CallIds(calls) == [i \in 1..Len(calls) |-> calls[i].toolCallId]

HasPart(stepResult, error) ==
    \E j \in 1..Len(stepResult.toolResults) :
        /\ stepResult.toolResults[j].type = "tool-error"
        /\ stepResult.toolResults[j].value = error

RECURSIVE MostRecentText(_)
(* the text of the latest step that has any, NoText when none has *)
MostRecentText(stepList) ==
    IF stepList = <<>> THEN NoText
    ELSE IF stepList[Len(stepList)].text # NoText THEN stepList[Len(stepList)].text
    ELSE MostRecentText(SubSeq(stepList, 1, Len(stepList) - 1))

RECURSIVE ResponseMessagesOf(_)
(* the messages the recorded steps have added to a context *)
ResponseMessagesOf(stepList) ==
    IF stepList = <<>> THEN <<>>
    ELSE ResponseMessagesOf(SubSeq(stepList, 1, Len(stepList) - 1))
         \o ToResponseMessages(stepList[Len(stepList)].text,
                               stepList[Len(stepList)].toolCalls,
                               stepList[Len(stepList)].toolResults)

LoopStarted == pc \in {"generate", "awaitModel", "execute"} \/ genCalls > 0

--------------------------------------------------------------------------
(* C1: in every run the number of generation requests issued is at most    *)
(* maxSteps (10).  The requests sent to the model are counted, a repeated  *)
(* one included.                                                           *)
C1_ModelCallsAtMostMaxSteps == modelCalls <= maxSteps

(* The steps themselves are bounded: at most maxSteps of them are started. *)
C1_GenerationCallsAtMostMaxSteps == genCalls <= maxSteps

C1_Witness == pc = "done" /\ genCalls = maxSteps /\ Len(steps) = maxSteps

(* C2: a turn without tool calls ends the loop on that iteration: it is    *)
(* the last step, the mutation returns that turn's text unchanged, and no  *)
(* generation request or tool invocation follows it.                       *)
C2_CallFreeTurnCompletes ==
    \A k \in 1..Len(steps) :
        steps[k].toolCalls = <<>> =>
            /\ k = Len(steps)
            /\ pc = "done"
            /\ result = ReturnOutput(steps[k].text)
            /\ genCalls = k
            /\ \A id \in invoked : id[1] < k

C2_Witness ==
    /\ pc = "done"
    /\ Len(steps) = 1
    /\ steps[1].toolCalls = <<>>
    /\ result = ReturnOutput("Node n1 is healthy")
    /\ genCalls = 1
    /\ maxSteps - genCalls > 0

(* C3: the caller can tell Completed, BudgetExhausted and Failed apart:    *)
(* two invocations that ended in different outcomes never hand their       *)
(* callers the same result.                                                *)
C3_OutcomesDistinguishable ==
    (pc = "done" /\ lastReported # None
       /\ lastReported.outcome # OutcomeOf(result, steps))
    => lastReported.result # result

(* C4: when the step budget is used up without a call-free turn, the       *)
(* outcome carries the most recent assistant text of the run, or the       *)
(* absence marker when no turn had text.                                   *)
C4_ExhaustionCarriesMostRecentText ==
    (pc = "done" /\ result.kind = "return"
       /\ OutcomeOf(result, steps) = "BudgetExhausted")
    => result.output = MostRecentText(steps)

(* C5: the tool results appended for a turn are in the order in which the  *)
(* model emitted the turn's tool calls, whatever order they completed in.  *)
C5_ResultsInEmissionOrder ==
    \A k \in 2..Len(messages) :
        messages[k].role = "tool" =>
            CallIds(messages[k].content) = CallIds(messages[k - 1].toolCalls)

(* C6: a tool call whose name is not among the tools obtained at the start *)
(* is never run; an error result naming it unknown is appended for it, and *)
(* the run goes on: the next generation request follows while steps        *)
(* remain, and the run does not end in a failure because of it.            *)
C6_UnknownToolRecovered ==
    /\ \A i \in 1..Len(stepToolCalls) :
          stepToolCalls[i].toolName \notin tools => stepToolCalls[i].toolCallId \notin invoked
    /\ \A k \in 1..Len(steps) :
          \A i \in 1..Len(steps[k].toolCalls) :
              LET call == steps[k].toolCalls[i]
              IN call.toolName \notin tools =>
                    /\ call.toolCallId \notin invoked
                    /\ \A p \in PartsFor(messages, call.toolCallId) :
                          /\ messages[p[1]].content[p[2]].type = "tool-error"
                          /\ messages[p[1]].content[p[2]].value = "NoSuchToolError"
                    /\ Cardinality(PartsFor(messages, call.toolCallId)) = 1
                    /\ k < maxSteps => (genCalls > k \/ pc = "generate")
                    /\ genCalls = k => result.kind # "throw"

C6_Witness ==
    /\ pc = "awaitModel"
    /\ genCalls = 2
    /\ \E c \in AssistantCalls(prompt) :
          /\ c.toolName \notin tools
          /\ PartsFor(prompt, c.toolCallId) # {}

(* C7: a failed tool invocation is never fatal: it is recorded as an error *)
(* result of that call, the next generation request is issued with it in   *)
(* the context while steps remain, and the run does not end in a failure   *)
(* because of it.                                                          *)
C7_ToolFailureRecovered ==
    /\ pc = "awaitModel" => prompt = messages
    /\ \A k \in 1..Len(steps) :
          HasPart(steps[k], "ToolInvocationError") =>
              /\ \A j \in 1..Len(steps[k].toolResults) :
                    steps[k].toolResults[j].value = "ToolInvocationError" =>
                       \E p \in PartsFor(messages, steps[k].toolResults[j].toolCallId) :
                          messages[p[1]].content[p[2]] = steps[k].toolResults[j]
              /\ k < maxSteps => (genCalls > k \/ pc = "generate")
              /\ genCalls = k => result.kind # "throw"

C7_Witness ==
    /\ pc = "awaitModel"
    /\ genCalls = 2
    /\ \E p \in ToolParts(prompt) :
          prompt[p[1]].content[p[2]].value = "ToolInvocationError"

(* C8: whenever a generation request is in flight, every tool call of      *)
(* every assistant turn sent with it has exactly one tool result in that   *)
(* context, and no tool call is outstanding.                               *)
C8_OneResultPerCallBeforeNextRequest ==
    pc = "awaitModel" =>
        /\ \A c \in AssistantCalls(prompt) :
              Cardinality(PartsFor(prompt, c.toolCallId)) = 1
        /\ \A k \in 1..Len(prompt) :
              prompt[k].role = "tool" =>
                 \A j \in 1..Len(prompt[k].content) :
                    prompt[k].content[j].type \in {"tool-result", "tool-error"}
        /\ toolOutputs = <<>>
        /\ stepToolCalls = <<>>

C8_Witness ==
    /\ pc = "awaitModel"
    /\ genCalls = 2
    /\ Cardinality(AssistantCalls(prompt)) = 2
    /\ \A c \in AssistantCalls(prompt) : c.toolName \in tools

(* C9: a run ends in a failure only when the tools could not be obtained   *)
(* before the loop or a generation request failed; an unknown tool, a tool *)
(* error or the exhausted step budget never does.                          *)
C9_FailedOnlyOnBackendOrRegistry ==
    pc = "done" =>
        /\ result.kind = "throw" =>
              \/ genCalls = 0 /\ steps = <<>> /\ messages = <<>>
              \/ genCalls = Len(steps) + 1
        /\ (genCalls > 0 /\ genCalls = Len(steps)) => result.kind = "return"

C9_Witness ==
    /\ pc = "done"
    /\ result.kind = "throw"
    /\ genCalls = 2
    /\ HasPart(steps[1], "ToolInvocationError")

(* C10: once the loop has started the context begins with the system turn  *)
(* holding the fixed prompt, followed by the user turn with the submitted  *)
(* text; no other system turn exists, and the first generation request     *)
(* carries exactly these two turns.                                        *)
C10_ContextSeed ==
    LoopStarted =>
        /\ Len(messages) >= 2
        /\ messages[1] = [role |-> "system", content |-> SYSTEM_PROMPT]
        /\ messages[2] = [role |-> "user", content |-> userText]
        /\ \A k \in 2..Len(messages) : messages[k].role # "system"
        /\ genCalls >= 1 => SubSeq(prompt, 1, 2) = SubSeq(messages, 1, 2)
        /\ genCalls = 1 => Len(prompt) = 2

C10_Witness ==
    /\ pc = "awaitModel"
    /\ genCalls = 3
    /\ Len(messages) > 2
    /\ messages[1].role = "system"

(* C11: the step budget starts at maxSteps, goes down by exactly 1 for     *)
(* each generation request whatever the turn holds, equals maxSteps minus  *)
(* the number of generation requests issued at every point, and never      *)
(* goes below 0.  Stated where no step is in progress, so that the step   *)
(* being recorded only at its end plays no part.                           *)
C11_BudgetTracksRequests ==
    (pc = "generate" \/ (pc = "done" /\ result.kind = "return"))
    => /\ Budget = maxSteps - modelCalls
       /\ maxSteps - modelCalls >= 0

(* The accounting per step: the budget is charged when the step is         *)
(* recorded, so it equals maxSteps minus the steps started whenever no     *)
(* step is in progress, is one more while the request or its tools are in  *)
(* flight or after the request failed, and stays within 0..maxSteps.       *)
C11_BudgetChargedPerRecordedStep ==
    /\ Budget >= 0
    /\ Budget <= maxSteps
    /\ (pc \in {"start", "tools", "call", "generate"}
          \/ (pc = "done" /\ result.kind = "return"))
       => Budget = maxSteps - genCalls
    /\ (pc \in {"awaitModel", "execute"}
          \/ (pc = "done" /\ result.kind = "throw" /\ genCalls > 0))
       => Budget = maxSteps - genCalls + 1

C11_Witness ==
    /\ pc = "done"
    /\ Budget = 0
    /\ genCalls = maxSteps
    /\ \E k \in 1..Len(steps) : Len(steps[k].toolCalls) = 2
    /\ \E k \in 1..Len(steps) : Len(steps[k].toolCalls) = 1

C13_ContextAppendOnly ==
    [][/\ (genCalls' = genCalls + 1 /\ genCalls >= 1) =>
             LET last == steps[Len(steps)]
             IN prompt' = prompt
                    \o <<[role |-> "assistant", text |-> last.text,
                          toolCalls |-> last.toolCalls]>>
                    \o <<[role |-> "tool", content |-> last.toolResults]>>
       /\ (LoopStarted /\ pc' # "start") =>
             /\ Len(messages') >= Len(messages)
             /\ SubSeq(messages', 1, Len(messages)) = messages]_vars

C13_Witness ==
    /\ pc = "awaitModel"
    /\ genCalls = 3
    /\ Len(prompt) = 6
    /\ prompt = messages

(* C14: the tools are read once, before the loop, and that snapshot is     *)
(* what every tool call of the run is resolved against: it does not change *)
(* afterwards, a tool the servers add or drop during the run changes       *)
(* nothing, and a name missing from the snapshot gets the unknown-tool     *)
(* error without the registry being read again.                            *)
C14_SnapshotResolvesCalls ==
    /\ [](/\ registryCalls <= 1
          /\ \A k \in 1..Len(steps) :
                \A j \in 1..Len(steps[k].toolCalls) :
                   LET call == steps[k].toolCalls[j]
                       parts == {r \in 1..Len(steps[k].toolResults) :
                                   steps[k].toolResults[r].toolCallId = call.toolCallId}
                   IN /\ call.invalid = (call.toolName \notin tools)
                      /\ call.toolCallId \in invoked <=> call.toolName \in tools
                      /\ \A r \in parts :
                            (steps[k].toolResults[r].value = "NoSuchToolError")
                               = (call.toolName \notin tools)
          /\ \A j \in 1..Len(stepToolCalls) :
                stepToolCalls[j].invalid = (stepToolCalls[j].toolName \notin tools))
    /\ [][pc \notin {"start", "tools"} => tools' = tools]_vars

C14_Witness ==
    /\ tools = Registered
    /\ remote = {"list_nodes", "restart_node"}
    /\ Len(steps) = 3
    /\ \E k \in 2..3 :
          /\ Len(steps[k].toolCalls) = 2
          /\ \E j \in 1..2 :
                /\ steps[k].toolCalls[j].toolName = "restart_node"
                /\ steps[k].toolResults[1].value = "NoSuchToolError"
          /\ \E j \in 1..2 :
                /\ steps[k].toolCalls[j].toolName = "check_node_health"
                /\ steps[k].toolCalls[j].toolCallId \in invoked

(* C15: two requests, served one after the other or at the same time, are  *)
(* independent runs: each has its own context, built from its own text and *)
(* its own steps only, its own step count and its own snapshot of the      *)
(* tools; a step of one changes nothing of the other.                      *)
C15_RunsIndependent ==
    /\ [](/\ messages # <<>> =>
                messages = InitialMessages(userText) \o ResponseMessagesOf(steps)
          /\ other.messages # <<>> =>
                other.messages = InitialMessages(OtherText)
                                    \o ResponseMessagesOf(other.steps)
          /\ Len(steps) <= genCalls /\ genCalls <= Len(steps) + 1
          /\ Len(other.steps) <= other.genCalls
          /\ other.genCalls <= Len(other.steps) + 1)
    /\ [][/\ ~(other' # other /\ runVars' # runVars)
          /\ (other.pc = "tools" /\ other'.pc = "call") => other'.tools = remote
          /\ (pc = "tools" /\ pc' = "call") => tools' = remote
          /\ other.pc \notin {"start", "tools"} => other'.tools = other.tools
          /\ pc \notin {"start", "tools"} => tools' = tools]_vars

C15_Witness ==
    /\ pc = "awaitModel"
    /\ other.pc = "awaitModel"
    /\ genCalls = 3
    /\ other.genCalls = 2
    /\ tools # other.tools
    /\ tools # {}
    /\ other.tools # {}
    /\ Len(messages) > Len(other.messages)

C17_TerminatesWithOneOutcome ==
    /\ <>(pc = "done")
    /\ [](pc # "done" => result = None)
    /\ [](pc = "done" =>
            /\ result.kind \in {"return", "throw"}
            /\ result.kind = "throw" => OutcomeOf(result, steps) = "Failed"
            /\ result.kind = "return" =>
                 /\ Len(steps) >= 1
                 /\ steps[Len(steps)].toolCalls = <<>> \/ Budget = 0
                 /\ OutcomeOf(result, steps) = "Completed"
                       <=> steps[Len(steps)].toolCalls = <<>>
                 /\ OutcomeOf(result, steps) = "BudgetExhausted"
                       <=> steps[Len(steps)].toolCalls # <<>>)
    /\ [][pc = "done" => (pc' = "done" /\ result' = result)]_vars

C17_Witness ==
    /\ pc = "done"
    /\ OutcomeOf(result, steps) = "Completed"
    /\ Len(steps) = 3
    /\ Budget = maxSteps - 3
    /\ HasPart(steps[1], "ToolInvocationError")

(* C18: after a fatal fault, the generation backend being unreachable      *)
(* among them, the run issues no further generation request and no         *)
(* further tool invocation: a request that met the fault is not sent       *)
(* again, so every request sent is the first try of its step, and no tool  *)
(* is invoked in a step whose request had failed.                          *)
C18_NoRequestAfterFatalFault ==
    /\ attempts <= 1
    /\ modelCalls = genCalls
    /\ pc = "execute" => attempts = 1

(* C19: a run that was cancelled, at whatever point, ends as Failed with   *)
(* the kind Cancelled, and no tool call that was still open when the       *)
(* cancellation arrived gets a result in the context.  Stated for the      *)
(* outcome alone: a cancelled run does not end as Completed or as          *)
(* BudgetExhausted.                                                        *)
C19_CancelledRunFails ==
    (pc = "done" /\ cancelled) => OutcomeOf(result, steps) = "Failed"

(* C20: the tools are obtained once per request, before the first          *)
(* generation request; when the client or its tool list cannot be          *)
(* obtained, no generation request and no tool invocation is made for      *)
(* that request.                                                           *)
C20_RegistryOnceBeforeGeneration ==
    /\ [](/\ registryCalls <= 1
          /\ pc \in {"call", "generate", "awaitModel", "execute"} =>
                (registryCalls = 1 /\ tools # {})
          /\ (modelCalls > 0 \/ invoked # {}) => (registryCalls = 1 /\ tools # {})
          /\ (pc = "done" /\ tools = {}) =>
                /\ result.kind = "throw"
                /\ modelCalls = 0
                /\ genCalls = 0
                /\ steps = <<>>
                /\ invoked = {})
    /\ [][/\ modelCalls' > modelCalls => (registryCalls = 1 /\ tools # {})
          /\ (modelCalls > 0 /\ pc' # "start") => registryCalls' = registryCalls
          /\ (tools = {} /\ pc' = "done") => (modelCalls' = 0 /\ invoked' = {})]_vars

C20_Witness ==
    /\ pc = "done"
    /\ registryCalls = 1
    /\ tools = {}
    /\ result = ToTRPCError(ErrorFault("MCP tools listing failed"))
    /\ modelCalls = 0

(* C21: every invocation ends by returning { output: text } or by throwing *)
(* a TRPCError with code INTERNAL_SERVER_ERROR, and any fault raised while *)
(* obtaining the registry, generating or running a tool ends it the second *)
(* way, with the fault's message when it is an Error and the fixed message *)
(* otherwise, and with no output.                                          *)
C21_EveryFaultMapped ==
    pc = "done" =>
        /\ result.kind \in {"return", "throw"}
        /\ (caught # None
              \/ \E k \in 1..Len(steps) : HasPart(steps[k], "ToolInvocationError"))
           => /\ result.kind = "throw"
              /\ result.code = "INTERNAL_SERVER_ERROR"
              /\ DOMAIN result = {"kind", "code", "message"}

(* C21 as amended: the faults that end an invocation are those that reach  *)
(* the catch block, from obtaining the registry or from generateText; such *)
(* a fault is thrown on as a TRPCError with code INTERNAL_SERVER_ERROR,    *)
(* the caught value's message when it is an Error and the fixed message    *)
(* otherwise, and with no output; a fault raised while running a tool does *)
(* not reach the catch block and does not end the invocation.              *)
C21_CaughtFaultMapped ==
    /\ pc # "done" => (result = None /\ caught = None)
    /\ pc = "done" =>
          /\ result.kind \in {"return", "throw"}
          /\ result.kind = "return" <=> caught = None
          /\ result.kind = "return" =>
                /\ DOMAIN result = {"kind", "output"}
                /\ genCalls = Len(steps)
          /\ result.kind = "throw" =>
                /\ DOMAIN result = {"kind", "code", "message"}
                /\ result.code = "INTERNAL_SERVER_ERROR"
                /\ caught.isError => result.message = caught.message
                /\ ~caught.isError => result.message = "Failed to analyze text"
                /\ genCalls = 0 \/ genCalls = Len(steps) + 1
    /\ \A k \in 1..Len(steps) :
          (HasPart(steps[k], "ToolInvocationError") /\ genCalls = k)
             => caught = None

C21_Witness ==
    /\ pc = "done"
    /\ genCalls = 2
    /\ HasPart(steps[1], "ToolInvocationError")
    /\ caught = NonErrorFault
    /\ result = [kind |-> "throw", code |-> "INTERNAL_SERVER_ERROR",
                 message |-> "Failed to analyze text"]

(* C22: what a run that does not throw returns is the text of its final    *)
(* step and nothing else: no tool call and no tool result is in it, and a  *)
(* run whose final step holds tool calls and no text returns the empty     *)
(* text in the same shape as an answer, whatever text earlier steps had.   *)
C22_OnlyFinalStepTextReturned ==
    (pc = "done" /\ result.kind = "return") =>
        /\ Len(steps) >= 1
        /\ DOMAIN result = {"kind", "output"}
        /\ result.output = steps[Len(steps)].text
        /\ (steps[Len(steps)].toolCalls # <<>> /\ steps[Len(steps)].text = NoText)
              => result = [kind |-> "return", output |-> NoText]

C22_Witness ==
    /\ pc = "done"
    /\ result = [kind |-> "return", output |-> NoText]
    /\ steps[Len(steps)].toolCalls # <<>>
    /\ steps[Len(steps)].toolResults # <<>>
    /\ \E k \in 1..(Len(steps) - 1) : steps[k].text = "Node n1 is healthy"

====
